---- MODULE Spec2Model ----
(***************************************************************************)
(* Model of src/src/lib/browser-tts.ts (class BrowserTTS) and of the       *)
(* AudioPlayer component (src/unnamed/part_000).                           *)
(*                                                                         *)
(* Conventions                                                             *)
(*  - a JavaScript string is a sequence of one-character strings;          *)
(*  - a float is a record [nan, v]: NaN, or the number v / FloatScale;     *)
(*  - an ArrayBuffer is a sequence of bytes (0..255), byte offset o of the *)
(*    code being index o + 1.                                              *)
(***************************************************************************)
EXTENDS Integers, Sequences, FiniteSets, TLC

VARIABLES
    buffer,     \* SpecWav: the AudioBuffer handed to audioBufferToWav
    wavOut,     \* SpecWav: the ArrayBuffer it returned (<<>> before the call)
    wavDone,    \* SpecWav: whether audioBufferToWav has returned
    synthText,   \* SpecSynth: createSyntheticAudio's argument text
    synthVoice,  \* SpecSynth: its argument voiceName
    synthRate,   \* SpecSynth: audioContext.sampleRate
    loopI,       \* SpecSynth: the loop counter i
    channelData, \* SpecSynth: audioBuffer.getChannelData(0)
    locals,      \* SpecSynth: the locals of the last iteration run
    synthPc,     \* SpecSynth: "start", "loop", "resolved" (or "idle")
    blob,        \* SpecSynth: the blob the promise resolved with
    synth,       \* SpecTTS: whether this.synth is set (speechSynthesis exists)
    voices,      \* SpecTTS: this.voices
    callArgs,    \* SpecTTS: the text, voiceId and AudioContext rate of the calls
    prevCall,    \* SpecTTS: the generateSpeech call before the last one
    lastCall,    \* SpecTTS: the last generateSpeech call and how it settled
    audioUrl,    \* SpecPlayer: the audioUrl prop of AudioPlayer
    isPlaying,   \* SpecPlayer: React state isPlaying
    currentTime, \* SpecPlayer: React state currentTime
    duration,    \* SpecPlayer: React state duration
    volume,      \* SpecPlayer: React state volume
    audio        \* SpecPlayer: the <audio> element audioRef points to

wavVars == <<buffer, wavOut, wavDone>>

synthVars == <<synthText, synthVoice, synthRate, loopI, channelData, locals, synthPc, blob>>

ttsVars == <<synth, voices, callArgs, prevCall, lastCall>>

playerVars == <<audioUrl, isPlaying, currentTime, duration, volume, audio>>

vars == <<wavVars, synthVars, ttsVars, playerVars>>

-----------------------------------------------------------------------------
(* Floats *)

\* Samples are k / FloatScale; 1.0 is F(FloatScale).
FloatScale == 10000

F(k) == [nan |-> FALSE, v |-> k]

NaN == [nan |-> TRUE, v |-> 0]

\* Math.min(a, x) and Math.max(a, x): NaN if an argument is NaN.
MathMin(a, x) == IF a.nan \/ x.nan THEN NaN ELSE IF x.v < a.v THEN x ELSE a

MathMax(a, x) == IF a.nan \/ x.nan THEN NaN ELSE IF x.v > a.v THEN x ELSE a

\* x * n for an integer n.
MulInt(x, n) == IF x.nan THEN NaN ELSE F(x.v * n)

\* The integer part of x (toward zero), as ToIntegerOrInfinity does; NaN is 0.
Trunc(x) ==
    IF x.nan THEN 0
    ELSE IF x.v >= 0 THEN x.v \div FloatScale
    ELSE -((-x.v) \div FloatScale)

-----------------------------------------------------------------------------
(* DataView *)

ZeroBytes(n) == [k \in 1..n |-> 0]

setUint8(view, offset, n) == [view EXCEPT ![offset + 1] = n % 256]

\* Little-endian, n modulo 2^16.
setUint16(view, offset, n) ==
    [view EXCEPT ![offset + 1] = n % 256,
                 ![offset + 2] = (n \div 256) % 256]

\* Little-endian, n modulo 2^32.
setUint32(view, offset, n) ==
    [view EXCEPT ![offset + 1] = n % 256,
                 ![offset + 2] = (n \div 256) % 256,
                 ![offset + 3] = (n \div 65536) % 256,
                 ![offset + 4] = (n \div 16777216) % 256]

\* setInt16(offset, x, true): ToInt16(x) is the integer part of x modulo 2^16,
\* stored as two's complement, little-endian.
setInt16(view, offset, x) == setUint16(view, offset, Trunc(x) % 65536)

getUint16(view, offset) == view[offset + 1] + 256 * view[offset + 2]

getUint32(view, offset) ==
    view[offset + 1] + 256 * view[offset + 2]
        + 65536 * view[offset + 3] + 16777216 * view[offset + 4]

getInt16(view, offset) ==
    LET u == getUint16(view, offset) IN IF u >= 32768 THEN u - 65536 ELSE u

\* string.charCodeAt: the UTF-16 code of a character of the model's alphabet.
CharCode(c) ==
    CASE c = "\t" -> 9 [] c = " " -> 32 [] c = "-" -> 45 [] c = "1" -> 49
      [] c = "A" -> 65 [] c = "B" -> 66 [] c = "D" -> 68 [] c = "E" -> 69
      [] c = "F" -> 70 [] c = "G" -> 71 [] c = "I" -> 73 [] c = "M" -> 77
      [] c = "R" -> 82 [] c = "S" -> 83 [] c = "U" -> 85 [] c = "V" -> 86
      [] c = "W" -> 87 [] c = "Z" -> 90 [] c = "a" -> 97 [] c = "b" -> 98
      [] c = "c" -> 99 [] c = "d" -> 100 [] c = "e" -> 101 [] c = "f" -> 102
      [] c = "g" -> 103 [] c = "h" -> 104 [] c = "i" -> 105 [] c = "j" -> 106
      [] c = "k" -> 107 [] c = "l" -> 108 [] c = "m" -> 109 [] c = "n" -> 110
      [] c = "o" -> 111 [] c = "p" -> 112 [] c = "q" -> 113 [] c = "r" -> 114
      [] c = "s" -> 115 [] c = "t" -> 116 [] c = "u" -> 117 [] c = "v" -> 118
      [] c = "w" -> 119 [] c = "x" -> 120 [] c = "y" -> 121 [] c = "z" -> 122

RECURSIVE writeString(_, _, _)
writeString(view, offset, string) ==
    IF string = <<>> THEN view
    ELSE writeString(setUint8(view, offset, CharCode(Head(string))),
                     offset + 1, Tail(string))

-----------------------------------------------------------------------------
(* audioBufferToWav *)

\* Mutant of ClampSample: the sample is written unclamped.
ClampSample_unclamped(x) == x

\* const sample = Math.max(-1, Math.min(1, x))
ClampSample(x) == MathMax(F(-FloatScale), MathMin(F(FloatScale), x))

\* view.setInt16(offset, sample * 0x7FFF, true)
writeSample(view, offset, x) == setInt16(view, offset, MulInt(ClampSample(x), 32767))

\* Mutant of writeSamples: channels written one after the other (planar), not
\* interleaved.
RECURSIVE writeSamples_planar(_, _, _)
writeSamples_planar(view, buf, k) ==
    IF k >= buf.length * buf.numberOfChannels THEN view
    ELSE LET channel == k \div buf.length
             i       == k % buf.length
         IN writeSamples_planar(
                setInt16(view, 44 + 2 * k,
                         MulInt(MathMax(F(-FloatScale),
                                        MathMin(F(FloatScale),
                                                buf.channels[channel + 1][i + 1])),
                                32767)),
                buf, k + 1)

\* The nested loop over frames i and channels: slot k = i * numberOfChannels + channel.
RECURSIVE writeSamples(_, _, _)
writeSamples(view, buf, k) ==
    IF k >= buf.length * buf.numberOfChannels THEN view
    ELSE LET i       == k \div buf.numberOfChannels
             channel == k % buf.numberOfChannels
         IN writeSamples(
                writeSample(view, 44 + 2 * k, buf.channels[channel + 1][i + 1]),
                buf, k + 1)

\* Mutant of writeHeader: the data size counts samples, not bytes.
writeHeader_sizeInSamples(view, length, numberOfChannels, sampleRate) ==
    LET v0  == writeString(view, 0, <<"R", "I", "F", "F">>)
        v1  == setUint32(v0, 4, 36 + length * numberOfChannels * 2)
        v2  == writeString(v1, 8, <<"W", "A", "V", "E">>)
        v3  == writeString(v2, 12, <<"f", "m", "t", " ">>)
        v4  == setUint32(v3, 16, 16)
        v5  == setUint16(v4, 20, 1)
        v6  == setUint16(v5, 22, numberOfChannels)
        v7  == setUint32(v6, 24, sampleRate)
        v8  == setUint32(v7, 28, sampleRate * numberOfChannels * 2)
        v9  == setUint16(v8, 32, numberOfChannels * 2)
        v10 == setUint16(v9, 34, 16)
        v11 == writeString(v10, 36, <<"d", "a", "t", "a">>)
    IN setUint32(v11, 40, length * numberOfChannels)

writeHeader(view, length, numberOfChannels, sampleRate) ==
    LET v0  == writeString(view, 0, <<"R", "I", "F", "F">>)
        v1  == setUint32(v0, 4, 36 + length * numberOfChannels * 2)
        v2  == writeString(v1, 8, <<"W", "A", "V", "E">>)
        v3  == writeString(v2, 12, <<"f", "m", "t", " ">>)
        v4  == setUint32(v3, 16, 16)
        v5  == setUint16(v4, 20, 1)
        v6  == setUint16(v5, 22, numberOfChannels)
        v7  == setUint32(v6, 24, sampleRate)
        v8  == setUint32(v7, 28, sampleRate * numberOfChannels * 2)
        v9  == setUint16(v8, 32, numberOfChannels * 2)
        v10 == setUint16(v9, 34, 16)
        v11 == writeString(v10, 36, <<"d", "a", "t", "a">>)
    IN setUint32(v11, 40, length * numberOfChannels * 2)

audioBufferToWav(buf) ==
    LET arrayBuffer == ZeroBytes(44 + buf.length * buf.numberOfChannels * 2)
    IN writeSamples(
           writeHeader(arrayBuffer, buf.length, buf.numberOfChannels, buf.sampleRate),
           buf, 0)

-----------------------------------------------------------------------------
(* Strings *)

\* The characters \s matches and trim() removes, within the model's alphabet.
IsSpace(c) == c \in {" ", "\t"}

ToLowerChar(c) ==
    CASE c = "A" -> "a" [] c = "B" -> "b" [] c = "D" -> "d" [] c = "E" -> "e"
      [] c = "F" -> "f" [] c = "G" -> "g" [] c = "I" -> "i" [] c = "M" -> "m"
      [] c = "R" -> "r" [] c = "S" -> "s" [] c = "U" -> "u" [] c = "V" -> "v"
      [] c = "W" -> "w" [] c = "Z" -> "z" [] OTHER -> c

toLowerCase(str) == [k \in 1..Len(str) |-> ToLowerChar(str[k])]

RECURSIVE trimStart(_)
trimStart(str) ==
    IF str # <<>> /\ IsSpace(Head(str)) THEN trimStart(Tail(str)) ELSE str

RECURSIVE trimEnd(_)
trimEnd(str) ==
    IF str # <<>> /\ IsSpace(str[Len(str)])
    THEN trimEnd(SubSeq(str, 1, Len(str) - 1))
    ELSE str

trim(str) == trimEnd(trimStart(str))

\* str.split(/\s+/): the pieces between maximal runs of whitespace; a run at
\* the start or the end leaves an empty piece there, and "" splits to [""].
\* cur is the piece being read, inRun whether the last character was a space.
RECURSIVE splitFrom(_, _, _, _)
splitFrom(rest, cur, inRun, acc) ==
    IF rest = <<>> THEN Append(acc, cur)
    ELSE IF IsSpace(Head(rest))
         THEN IF inRun THEN splitFrom(Tail(rest), cur, TRUE, acc)
              ELSE splitFrom(Tail(rest), <<>>, TRUE, Append(acc, cur))
         ELSE splitFrom(Tail(rest), Append(cur, Head(rest)), FALSE, acc)

splitSpaces(str) == splitFrom(str, <<>>, FALSE, <<>>)

startsWith(str, prefix) ==
    /\ Len(prefix) <= Len(str)
    /\ SubSeq(str, 1, Len(prefix)) = prefix

includes(str, sub) ==
    \E k \in 0..(Len(str) - Len(sub)) : SubSeq(str, k + 1, k + Len(sub)) = sub

-----------------------------------------------------------------------------
(* Math.sin *)

\* Math.sin is approximated: the angle is cut to whole degrees and Bhaskara's
\* formula gives the sine in thousandths (error below 0.002).  Every other
\* quantity of createSyntheticAudio is computed exactly, as a rational.
SinScale == 1000

SinHalfTurn(x) == (4 * SinScale * x * (180 - x)) \div (40500 - x * (180 - x))

SinDeg(d) ==
    LET m == d % 360
    IN IF m <= 180 THEN SinHalfTurn(m) ELSE -SinHalfTurn(m - 180)

\* 180 / pi, in hundredths: radians to degrees.
DegPerRadian100 == 5730

-----------------------------------------------------------------------------
(* createSyntheticAudio *)

wordsPerMinute == 150

\* Mutant of wordCountOf: the text is split without being trimmed.
wordCountOf_untrimmed(text) == Len(splitSpaces(text))

\* const wordCount = text.trim().split(/\s+/).length
wordCountOf(text) == Len(splitSpaces(trim(text)))

\* const durationSeconds = Math.max(2, (wordCount / wordsPerMinute) * 60),
\* a rational num / den.  The code computes in doubles; the two agree for every
\* word count below 615, where (wordCount / 150) * 60 first rounds below the
\* exact value.
durationSeconds(text) ==
    LET wordCount == wordCountOf(text)
    IN IF wordCount * 60 > 2 * wordsPerMinute
       THEN [num |-> wordCount * 60, den |-> wordsPerMinute]
       ELSE [num |-> 2, den |-> 1]

\* const samples = Math.floor(durationSeconds * sampleRate)
sampleCount(text, sampleRate) ==
    LET d == durationSeconds(text) IN (d.num * sampleRate) \div d.den

\* const frequency = voiceName.toLowerCase().includes('male') ? 120 : 200
baseFrequency(voiceName) ==
    IF includes(toLowerCase(voiceName), <<"m", "a", "l", "e">>) THEN 120 ELSE 200

\* const words = text.toLowerCase().split(/\s+/)
wordsOf(text) == splitSpaces(toLowerCase(text))

\* Mutant of loopRuns: the loop runs one iteration too many.
loopRuns_inclusive(i, samples) == i <= samples

\* for (let i = 0; i < samples; i++)
loopRuns(i, samples) == i < samples

\* The locals of iteration i of the loop.  t = i / sampleRate and
\* progress = t / durationSeconds are rationals num / den.
iteration(i, text, voiceName, sampleRate) ==
    LET d           == durationSeconds(text)
        words       == wordsOf(text)
        progressNum == i * d.den
        progressDen == sampleRate * d.num
        wordIndex   == (progressNum * Len(words)) \div progressDen
        inRange     == wordIndex + 1 \in DOMAIN words
        currentWord == IF inRange THEN words[wordIndex + 1] ELSE <<>>
        wordFreq    == baseFrequency(voiceName) + Len(currentWord) * 5
        charCode    == IF currentWord = <<>> THEN 65 ELSE CharCode(currentWord[1])
        modulation  == SinDeg((90 * 100 * i + DegPerRadian100 * charCode * sampleRate)
                                  \div (100 * sampleRate))
        fundamental == SinDeg((360 * wordFreq * i) \div sampleRate)
        formant1    == SinDeg((900 * wordFreq * i) \div sampleRate)
        formant2    == SinDeg((1260 * wordFreq * i) \div sampleRate)
        envelope    == SinDeg((180 * progressNum) \div progressDen)
        \* (fundamental + formant1*0.3 + formant2*0.2 + modulation*0.3), in 1/10 SinScale
        sum10       == 10 * fundamental + 3 * formant1 + 2 * formant2 + 3 * modulation
        \* sum * (envelope * 0.8) * 0.2, in 1 / FloatScale
        num         == sum10 * envelope * 16
        sampleV     == IF num >= 0 THEN num \div (100 * SinScale)
                       ELSE -((-num) \div (100 * SinScale))
    IN [i |-> i, progressNum |-> progressNum, progressDen |-> progressDen,
        wordsLength |-> Len(words), wordIndex |-> wordIndex, inRange |-> inRange,
        currentWord |-> currentWord, wordFreq |-> wordFreq, charCode |-> charCode,
        sample |-> F(sampleV)]

\* The channel data once the loop has ended: createBuffer's zeros, element i
\* overwritten by iteration i.
synthesizedData(text, voiceName, sampleRate) ==
    [k \in 1..sampleCount(text, sampleRate) |->
        iteration(k - 1, text, voiceName, sampleRate).sample]

\* audioContext.createBuffer(1, samples, sampleRate) holding channelData.
monoBuffer(data, sampleRate) ==
    [length |-> Len(data), numberOfChannels |-> 1, sampleRate |-> sampleRate,
     channels |-> <<data>>]

\* new Blob([wavBuffer], { type: 'audio/wav' })
wavBlob(audioBuffer) == [type |-> "audio/wav", bytes |-> audioBufferToWav(audioBuffer)]

\* The blob createSyntheticAudio resolves with.
createSyntheticAudio(text, voiceName, sampleRate) ==
    wavBlob(monoBuffer(synthesizedData(text, voiceName, sampleRate), sampleRate))

-----------------------------------------------------------------------------
(* The variables of a specification that does not use them *)

NoBuffer == [length |-> 0, numberOfChannels |-> 1, sampleRate |-> 8000,
             channels |-> <<<<>>>>]

NoLocals ==
    [i |-> -1, progressNum |-> 0, progressDen |-> 1, wordsLength |-> 0,
     wordIndex |-> 0, inRange |-> FALSE, currentWord |-> <<>>, wordFreq |-> 0,
     charCode |-> 0, sample |-> F(0)]

NoBlob == [type |-> "", bytes |-> <<>>]

WavIdle ==
    /\ buffer = NoBuffer
    /\ wavOut = <<>>
    /\ wavDone = TRUE

SynthIdle ==
    /\ synthText = <<>>
    /\ synthVoice = <<>>
    /\ synthRate = 1
    /\ loopI = 0
    /\ channelData = <<>>
    /\ locals = NoLocals
    /\ synthPc = "idle"
    /\ blob = NoBlob

NoPromise == [state |-> "none", value |-> NoBlob, reason |-> ""]

NoCall ==
    [text |-> <<>>, voiceId |-> <<>>, sampleRate |-> 0, speak |-> "",
     voiceName |-> <<>>, frequency |-> 0, rate |-> 0, pitch |-> 0,
     promise |-> NoPromise]

TtsIdle ==
    /\ synth = FALSE
    /\ voices = <<>>
    /\ callArgs = [text |-> <<>>, voiceId |-> <<>>, sampleRate |-> 0]
    /\ prevCall = NoCall
    /\ lastCall = NoCall

\* An <audio> element that has just been given a src: paused, at 0, its
\* metadata not loaded yet; vol is its volume, in hundredths.
FreshAudio(vol) == [paused |-> TRUE, currentTime |-> 0, loaded |-> FALSE, volume |-> vol]

PlayerIdle ==
    /\ audioUrl = ""
    /\ isPlaying = FALSE
    /\ currentTime = 0
    /\ duration = 0
    /\ volume = 80
    /\ audio = FreshAudio(80)

-----------------------------------------------------------------------------
(* SpecWav: audioBufferToWav applied to an arbitrary AudioBuffer *)

\* Frames per buffer.
MaxFrames == 2

WavChannels == {1, 2}

WavRates == {8000, 44100}

\* -1.5, -1, -0.25, 0.25, 1.5 and NaN.
WavFloats ==
    {NaN, F(-15000), F(-FloatScale), F(-2500), F(2500), F(15000)}

\* Any buffer of 0..MaxFrames frames: getChannelData(c)[i] is channels[c + 1][i + 1].
WavInit ==
    /\ \E n \in 0..MaxFrames, c \in WavChannels, r \in WavRates :
          \E data \in [1..c -> [1..n -> WavFloats]] :
              buffer = [length |-> n, numberOfChannels |-> c, sampleRate |-> r,
                        channels |-> data]
    /\ wavOut = <<>>
    /\ wavDone = FALSE
    /\ SynthIdle
    /\ TtsIdle
    /\ PlayerIdle

EncodeBuffer ==
    /\ ~wavDone
    /\ wavOut' = audioBufferToWav(buffer)
    /\ wavDone' = TRUE
    /\ UNCHANGED <<buffer, synthVars, ttsVars, playerVars>>

WavNext == EncodeBuffer

SpecWav == WavInit /\ [][WavNext]_vars

-----------------------------------------------------------------------------
(* SpecSynth: createSyntheticAudio, one loop iteration per step *)

\* Characters of an exhaustively enumerated text.
MaxTextLen == 3

\* Words of a longer text.
MaxWords == 7

\* Sample rates 1..MaxRate.
MaxRate == 3

TextAlphabet == {"a", "B", " ", "\t"}

ShortTexts == UNION { [1..n -> TextAlphabet] : n \in 0..MaxTextLen }

\* k words, "Ab" and "b" in turn, single spaces between them.
RECURSIVE wordRun(_)
wordRun(k) ==
    IF k = 0 THEN <<>>
    ELSE wordRun(k - 1) \o (IF k = 1 THEN <<>> ELSE <<" ">>)
             \o (IF k % 2 = 1 THEN <<"A", "b">> ELSE <<"b">>)

LongTexts ==
    { lead \o wordRun(k) \o trail :
        k \in 1..MaxWords, lead \in {<<>>, <<" ">>}, trail \in {<<>>, <<" ", "\t">>} }

SynthTexts == ShortTexts \cup LongTexts

Str_default == <<"d", "e", "f", "a", "u", "l", "t">>

Str_ZiraFemale == <<"Z", "i", "r", "a", " ", "F", "e", "m", "a", "l", "e">>

Str_DavidMale == <<"D", "a", "v", "i", "d", " ", "M", "a", "l", "e">>

SynthVoiceNames == {Str_default, Str_ZiraFemale, Str_DavidMale}

SynthInit ==
    /\ synthText \in SynthTexts
    /\ synthVoice \in SynthVoiceNames
    /\ synthRate \in 1..MaxRate
    /\ loopI = 0
    /\ channelData = <<>>
    /\ locals = NoLocals
    /\ synthPc = "start"
    /\ blob = NoBlob
    /\ WavIdle
    /\ TtsIdle
    /\ PlayerIdle

\* Lines 137-154: the buffer of `samples` zeros is created and the loop entered.
SynthBegin ==
    /\ synthPc = "start"
    /\ channelData' = [k \in 1..sampleCount(synthText, synthRate) |-> F(0)]
    /\ loopI' = 0
    /\ synthPc' = "loop"
    /\ UNCHANGED <<synthText, synthVoice, synthRate, locals, blob, wavVars, ttsVars, playerVars>>

\* One iteration of the loop body; a write past the end of a typed array is
\* ignored.
SynthSample ==
    /\ synthPc = "loop"
    /\ loopRuns(loopI, Len(channelData))
    /\ LET it == iteration(loopI, synthText, synthVoice, synthRate)
       IN /\ locals' = it
          /\ channelData' = IF loopI + 1 \in DOMAIN channelData
                            THEN [channelData EXCEPT ![loopI + 1] = it.sample]
                            ELSE channelData
    /\ loopI' = loopI + 1
    /\ UNCHANGED <<synthText, synthVoice, synthRate, synthPc, blob, wavVars, ttsVars, playerVars>>

\* Lines 177-181: the loop has ended; the buffer is encoded and the promise
\* resolved with the blob.
SynthResolve ==
    /\ synthPc = "loop"
    /\ ~loopRuns(loopI, Len(channelData))
    /\ blob' = wavBlob(monoBuffer(channelData, synthRate))
    /\ synthPc' = "resolved"
    /\ UNCHANGED <<synthText, synthVoice, synthRate, loopI, channelData, locals, wavVars, ttsVars, playerVars>>

SynthNext == SynthBegin \/ SynthSample \/ SynthResolve

SpecSynth == SynthInit /\ [][SynthNext]_vars

-----------------------------------------------------------------------------
(* String constants of BrowserTTS *)

Id_voice_male_professional_1 ==
    <<"v", "o", "i", "c", "e", "-", "m", "a", "l", "e", "-", "p",
      "r", "o", "f", "e", "s", "s", "i", "o", "n", "a", "l", "-", "1">>

Id_voice_female_professional_1 ==
    <<"v", "o", "i", "c", "e", "-", "f", "e", "m", "a", "l", "e", "-",
      "p", "r", "o", "f", "e", "s", "s", "i", "o", "n", "a", "l", "-", "1">>

Id_voice_male_casual_1 ==
    <<"v", "o", "i", "c", "e", "-", "m", "a", "l",
      "e", "-", "c", "a", "s", "u", "a", "l", "-", "1">>

Id_voice_female_casual_1 ==
    <<"v", "o", "i", "c", "e", "-", "f", "e", "m", "a",
      "l", "e", "-", "c", "a", "s", "u", "a", "l", "-", "1">>

Id_voice_male_british_1 ==
    <<"v", "o", "i", "c", "e", "-", "m", "a", "l", "e",
      "-", "b", "r", "i", "t", "i", "s", "h", "-", "1">>

Id_voice_female_british_1 ==
    <<"v", "o", "i", "c", "e", "-", "f", "e", "m", "a", "l",
      "e", "-", "b", "r", "i", "t", "i", "s", "h", "-", "1">>

Id_voice_male_narrative_1 ==
    <<"v", "o", "i", "c", "e", "-", "m", "a", "l", "e", "-",
      "n", "a", "r", "r", "a", "t", "i", "v", "e", "-", "1">>

Id_voice_female_narrative_1 ==
    <<"v", "o", "i", "c", "e", "-", "f", "e", "m", "a", "l", "e",
      "-", "n", "a", "r", "r", "a", "t", "i", "v", "e", "-", "1">>

Id_voice_male_news_1 ==
    <<"v", "o", "i", "c", "e", "-", "m", "a",
      "l", "e", "-", "n", "e", "w", "s", "-", "1">>

Id_voice_female_news_1 ==
    <<"v", "o", "i", "c", "e", "-", "f", "e", "m",
      "a", "l", "e", "-", "n", "e", "w", "s", "-", "1">>

Id_voice_male_x == <<"v", "o", "i", "c", "e", "-", "m", "a", "l", "e", "-", "x">>

Id_voice_female_x ==
    <<"v", "o", "i", "c", "e", "-", "f",
      "e", "m", "a", "l", "e", "-", "x">>

Id_unknown_id == <<"u", "n", "k", "n", "o", "w", "n", "-", "i", "d">>

Str_professional == <<"p", "r", "o", "f", "e", "s", "s", "i", "o", "n", "a", "l">>

Str_casual == <<"c", "a", "s", "u", "a", "l">>

Str_narrative == <<"n", "a", "r", "r", "a", "t", "i", "v", "e">>

Str_news == <<"n", "e", "w", "s">>

Str_male == <<"m", "a", "l", "e">>

Str_female == <<"f", "e", "m", "a", "l", "e">>

Str_en == <<"e", "n">>

Str_en_US == <<"e", "n", "-", "U", "S">>

Str_en_GB == <<"e", "n", "-", "G", "B">>

Str_fr_FR == <<"f", "r", "-", "F", "R">>

Str_Daniel == <<"D", "a", "n", "i", "e", "l">>

Str_Amelie == <<"A", "m", "e", "l", "i", "e">>

-----------------------------------------------------------------------------
(* BrowserTTS.generateSpeech *)

Characteristics(gender, lang) == [gender |-> gender, lang |-> lang]

\* voiceMap[voiceId] || { gender: 'female', lang: 'en-US' }
voiceMap(voiceId) ==
    CASE voiceId = Id_voice_male_professional_1   -> Characteristics(Str_male, Str_en_US)
      [] voiceId = Id_voice_female_professional_1 -> Characteristics(Str_female, Str_en_US)
      [] voiceId = Id_voice_male_casual_1         -> Characteristics(Str_male, Str_en_US)
      [] voiceId = Id_voice_female_casual_1       -> Characteristics(Str_female, Str_en_US)
      [] voiceId = Id_voice_male_british_1        -> Characteristics(Str_male, Str_en_GB)
      [] voiceId = Id_voice_female_british_1      -> Characteristics(Str_female, Str_en_GB)
      [] voiceId = Id_voice_male_narrative_1      -> Characteristics(Str_male, Str_en_US)
      [] voiceId = Id_voice_female_narrative_1    -> Characteristics(Str_female, Str_en_US)
      [] voiceId = Id_voice_male_news_1           -> Characteristics(Str_male, Str_en_US)
      [] voiceId = Id_voice_female_news_1         -> Characteristics(Str_female, Str_en_US)
      [] OTHER                                    -> Characteristics(Str_female, Str_en_US)

\* lang.split('-')[0]
RECURSIVE beforeDash(_)
beforeDash(str) ==
    IF str = <<>> \/ Head(str) = "-" THEN <<>>
    ELSE <<Head(str)>> \o beforeDash(Tail(str))

\* Array.prototype.find: the first element among those at the indices hits
\* (where the callback returns true), as <<element>>, or <<>> (undefined).
find(list, hits) ==
    IF hits = {} THEN <<>>
    ELSE <<list[CHOOSE k \in hits : \A j \in hits : k <= j]>>

\* The voice selected, as <<voice>>, or <<>> for null.
selectVoiceByCharacteristics(voiceList, voiceId) ==
    IF Len(voiceList) = 0 THEN <<>>
    ELSE LET characteristics == voiceMap(voiceId)
             exact(voice) ==
                 /\ voice.lang = characteristics.lang
                 /\ includes(toLowerCase(voice.name), characteristics.gender)
             family(voice) ==
                 /\ startsWith(voice.lang, beforeDash(characteristics.lang))
                 /\ includes(toLowerCase(voice.name), characteristics.gender)
             english(voice) == startsWith(voice.lang, Str_en)
             where(P(_)) == { k \in DOMAIN voiceList : P(voiceList[k]) }
             first  == find(voiceList, where(exact))
             second == IF first = <<>> THEN find(voiceList, where(family)) ELSE first
             third  == IF second = <<>> THEN find(voiceList, where(english)) ELSE second
         IN IF third # <<>> THEN third ELSE <<voiceList[1]>>

\* new SpeechSynthesisUtterance(text); rate, pitch and volume in hundredths.
newUtterance(text) ==
    [text |-> text, voice |-> <<>>, rate |-> 100, pitch |-> 100, volume |-> 100]

configureUtterance(utterance, voiceId) ==
    LET u == IF includes(voiceId, Str_professional)
                 THEN [utterance EXCEPT !.rate = 90, !.pitch = 100]
             ELSE IF includes(voiceId, Str_casual)
                 THEN [utterance EXCEPT !.rate = 100, !.pitch = 110]
             ELSE IF includes(voiceId, Str_narrative)
                 THEN [utterance EXCEPT !.rate = 80, !.pitch = 90]
             ELSE IF includes(voiceId, Str_news)
                 THEN [utterance EXCEPT !.rate = 95, !.pitch = 100]
             ELSE utterance
    IN [u EXCEPT !.volume = 100]

(* Promises: a promise is pending until it is first resolved or rejected; later
   calls of resolve or reject do nothing. *)
Pending == [state |-> "pending", value |-> NoBlob, reason |-> ""]

Fulfilled(value) == [state |-> "fulfilled", value |-> value, reason |-> ""]

Rejected(reason) == [state |-> "rejected", value |-> NoBlob, reason |-> reason]

settle(promise, outcome) == IF promise.state = "pending" THEN outcome ELSE promise

\* utterance.voice?.name || 'default'
voiceNameOf(utterance) ==
    IF utterance.voice = <<>> \/ utterance.voice[1].name = <<>>
    THEN Str_default
    ELSE utterance.voice[1].name

\* What speechSynthesis.speak does when called: it returns at once, and the
\* utterance later ends ("ends") or never does ("never_ends"); or it throws.
SpeakOutcomes == {"ends", "never_ends", "throws"}

\* captureAudio: the executor calls createSyntheticAudio, whose own executor
\* runs the whole synthesis and resolves its promise before it returns; the
\* then-callback that resolves captureAudio's promise is a microtask, run after
\* the executor has called speak and, if speak threw, has rejected.
captureAudio(utterance, sampleRate, speak) ==
    LET synthetic == Fulfilled(createSyntheticAudio(utterance.text,
                                                    voiceNameOf(utterance), sampleRate))
        afterSpeak == IF speak = "throws"
                      THEN settle(Pending, Rejected("speak threw"))
                      ELSE Pending
    IN settle(afterSpeak, synthetic)

\* Mutant of generateSpeech: the check of this.synth is missing, and
\* this.synth!.speak throws a TypeError on null.
generateSpeech_noGuard(synthSet, voiceList, text, voiceId, sampleRate, speak) ==
    LET selected == selectVoiceByCharacteristics(voiceList, voiceId)
        utterance == configureUtterance(
                         [newUtterance(text) EXCEPT !.voice = selected], voiceId)
        outcome == IF synthSet
                   THEN captureAudio(utterance, sampleRate, speak)
                   ELSE settle(Pending, Rejected("TypeError"))
    IN [text |-> text, voiceId |-> voiceId, sampleRate |-> sampleRate, speak |-> speak,
        voiceName |-> voiceNameOf(utterance),
        frequency |-> baseFrequency(voiceNameOf(utterance)),
        rate |-> utterance.rate, pitch |-> utterance.pitch,
        promise |-> outcome]

\* generateSpeech(text, voiceId), with what the platform does during the call:
\* the rate of the AudioContext and what speak does.  The result records the
\* call, the voice name and base frequency it used and how its promise settled.
generateSpeech(synthSet, voiceList, text, voiceId, sampleRate, speak) ==
    IF ~synthSet
    THEN [text |-> text, voiceId |-> voiceId, sampleRate |-> sampleRate,
          speak |-> "", voiceName |-> <<>>, frequency |-> 0, rate |-> 0, pitch |-> 0,
          promise |-> settle(Pending, Rejected("Speech synthesis not supported"))]
    ELSE LET selected == selectVoiceByCharacteristics(voiceList, voiceId)
             utterance == configureUtterance(
                              [newUtterance(text) EXCEPT !.voice = selected], voiceId)
         IN [text |-> text, voiceId |-> voiceId, sampleRate |-> sampleRate,
             speak |-> speak,
             voiceName |-> voiceNameOf(utterance),
             frequency |-> baseFrequency(voiceNameOf(utterance)),
             rate |-> utterance.rate, pitch |-> utterance.pitch,
             promise |-> captureAudio(utterance, sampleRate, speak)]

-----------------------------------------------------------------------------
(* SpecTTS: a BrowserTTS object, its voice list and its generateSpeech calls *)

Voice(name, lang) == [name |-> name, lang |-> lang]

\* What getVoices() may return.
VoiceLists ==
    { <<>>,
      <<Voice(Str_ZiraFemale, Str_en_US)>>,
      <<Voice(Str_Daniel, Str_en_GB), Voice(Str_DavidMale, Str_en_GB)>>,
      <<Voice(Str_Amelie, Str_fr_FR)>>,
      <<Voice(Str_Amelie, Str_fr_FR), Voice(Str_ZiraFemale, Str_en_US),
        Voice(Str_DavidMale, Str_en_GB)>> }

TtsTexts == {wordRun(2), <<" ">> \o wordRun(6)}

TtsVoiceIds ==
    { Id_voice_male_british_1, Id_voice_female_professional_1,
      Id_voice_male_x, Id_voice_female_x, Id_unknown_id }

TtsRates == {2, 3}

\* The constructor: this.synth is set if the platform has speechSynthesis, and
\* loadVoices then reads getVoices() once.  callArgs are the arguments the
\* calls of a behaviour are made with, and the platform's sample rate.
TtsInit ==
    /\ synth \in BOOLEAN
    /\ voices \in (IF synth THEN VoiceLists ELSE {<<>>})
    /\ callArgs \in [text : TtsTexts, voiceId : TtsVoiceIds, sampleRate : TtsRates]
    /\ prevCall = NoCall
    /\ lastCall = NoCall
    /\ WavIdle
    /\ SynthIdle
    /\ PlayerIdle

\* updateVoices, the 'voiceschanged' listener loadVoices registered.
VoicesChanged ==
    /\ synth
    /\ \E list \in VoiceLists : voices' = list
    /\ UNCHANGED <<synth, callArgs, prevCall, lastCall, wavVars, synthVars, playerVars>>

\* A call of generateSpeech, run until its promise has settled (the executors
\* and the microtasks they queue run without an event in between).
GenerateSpeech ==
    /\ \E speak \in SpeakOutcomes :
           lastCall' = generateSpeech(synth, voices, callArgs.text, callArgs.voiceId,
                                      callArgs.sampleRate, speak)
    /\ prevCall' = lastCall
    /\ UNCHANGED <<synth, voices, callArgs, wavVars, synthVars, playerVars>>

TtsNext == VoicesChanged \/ GenerateSpeech

SpecTTS == TtsInit /\ [][TtsNext]_vars

-----------------------------------------------------------------------------
(* SpecPlayer: the AudioPlayer component and its <audio> element *)

\* The length of every medium, in time steps.
MediaLength == 2

\* Positions of the volume slider.
VolumeLevels == {0, 80, 100}

AudioUrls == {"blob:1", "blob:2"}

\* The first render: useState's initial values, an element with src = audioUrl
\* whose volume the effect has set to volume / 100.
PlayerInit ==
    /\ audioUrl \in AudioUrls
    /\ isPlaying = FALSE
    /\ currentTime = 0
    /\ duration = 0
    /\ volume = 80
    /\ audio = FreshAudio(80)
    /\ WavIdle
    /\ SynthIdle
    /\ TtsIdle

\* togglePlay.  audio.play() either starts playback (from the start, if the
\* medium had ended) or is refused and leaves the element paused.
TogglePlay ==
    /\ \/ /\ isPlaying
          /\ audio' = [audio EXCEPT !.paused = TRUE]
       \/ /\ ~isPlaying
          /\ \E started \in BOOLEAN :
                audio' = IF started
                         THEN [audio EXCEPT
                                 !.paused = FALSE,
                                 !.currentTime =
                                     IF audio.loaded /\ audio.currentTime = MediaLength
                                     THEN 0 ELSE audio.currentTime]
                         ELSE audio
    /\ isPlaying' = ~isPlaying
    /\ UNCHANGED <<audioUrl, currentTime, duration, volume, wavVars, synthVars, ttsVars>>

\* 'loadedmetadata': handleDurationChange.
LoadedMetadata ==
    /\ ~audio.loaded
    /\ audio' = [audio EXCEPT !.loaded = TRUE]
    /\ duration' = MediaLength
    /\ UNCHANGED <<audioUrl, isPlaying, currentTime, volume, wavVars, synthVars, ttsVars>>

\* Playback advances and 'timeupdate' fires: handleTimeUpdate.
TimeUpdate ==
    /\ audio.loaded
    /\ ~audio.paused
    /\ audio.currentTime < MediaLength
    /\ audio' = [audio EXCEPT !.currentTime = audio.currentTime + 1]
    /\ currentTime' = audio.currentTime + 1
    /\ UNCHANGED <<audioUrl, isPlaying, duration, volume, wavVars, synthVars, ttsVars>>

\* Playback reaches the end: the element pauses and 'ended' fires: handleEnded.
Ended ==
    /\ audio.loaded
    /\ ~audio.paused
    /\ audio.currentTime = MediaLength
    /\ audio' = [audio EXCEPT !.paused = TRUE]
    /\ isPlaying' = FALSE
    /\ UNCHANGED <<audioUrl, currentTime, duration, volume, wavVars, synthVars, ttsVars>>

\* handleSeek, from the timeline slider.
HandleSeek ==
    /\ \E newTime \in 0..MediaLength :
        /\ audio' = [audio EXCEPT !.currentTime = newTime]
        /\ currentTime' = newTime
    /\ UNCHANGED <<audioUrl, isPlaying, duration, volume, wavVars, synthVars, ttsVars>>

\* The parent renders AudioPlayer with another audioUrl: the element gets the
\* new src and loads it, which pauses it and resets its position; the state of
\* the component is kept, and the effect registers the same listeners again.
AudioUrlChange ==
    /\ \E url \in AudioUrls \ {audioUrl} : audioUrl' = url
    /\ audio' = FreshAudio(audio.volume)
    /\ UNCHANGED <<isPlaying, currentTime, duration, volume, wavVars, synthVars, ttsVars>>

\* The volume slider: setVolume, then the effect sets audio.volume.
VolumeChange ==
    /\ \E level \in VolumeLevels \ {volume} :
        /\ volume' = level
        /\ audio' = [audio EXCEPT !.volume = level]
    /\ UNCHANGED <<audioUrl, isPlaying, currentTime, duration, wavVars, synthVars, ttsVars>>

PlayerNext ==
    \/ TogglePlay
    \/ LoadedMetadata
    \/ TimeUpdate
    \/ Ended
    \/ HandleSeek
    \/ AudioUrlChange
    \/ VolumeChange

SpecPlayer == PlayerInit /\ [][PlayerNext]_vars

-----------------------------------------------------------------------------
(* Claims about audioBufferToWav, checked under SpecWav *)

DataBytes == buffer.length * buffer.numberOfChannels * 2

Slots == 0..(buffer.length * buffer.numberOfChannels - 1)

\* The float that frame i, channel c of the buffer holds, for slot k = i * C + c.
SlotSample(k) ==
    buffer.channels[(k % buffer.numberOfChannels) + 1]
                   [(k \div buffer.numberOfChannels) + 1]

\* C3: the output of audioBufferToWav has 44 + L*C*2 bytes and its header
\* decodes to the buffer's channel count (offset 22), sample rate (24), byte
\* rate R*C*2 (28), block align C*2 (32), 16 bits per sample (34), data size
\* L*C*2 (40) and chunk size 36 + L*C*2 (4).
C3_HeaderRoundTrip ==
    wavDone =>
        /\ Len(wavOut) = 44 + DataBytes
        /\ getUint16(wavOut, 22) = buffer.numberOfChannels
        /\ getUint32(wavOut, 24) = buffer.sampleRate
        /\ getUint32(wavOut, 28) = buffer.sampleRate * buffer.numberOfChannels * 2
        /\ getUint16(wavOut, 32) = buffer.numberOfChannels * 2
        /\ getUint16(wavOut, 34) = 16
        /\ getUint32(wavOut, 40) = DataBytes
        /\ getUint32(wavOut, 4) = 36 + DataBytes
        /\ Len(wavOut) - 44 = getUint32(wavOut, 40)

C3_Witness ==
    /\ wavDone
    /\ buffer.length = MaxFrames
    /\ buffer.numberOfChannels = 2
    /\ buffer.sampleRate = 44100

\* C4: every 16-bit payload value decodes to an integer in [-32767, 32767], and
\* never to one of the sign opposite to its sample's (no wrap-around), whatever
\* the float sample is, values outside [-1, 1] and NaN included.
C4_NoOverflow ==
    wavDone =>
        \A k \in Slots :
            LET d == getInt16(wavOut, 44 + 2 * k)
                x == SlotSample(k)
            IN /\ d \in -32767..32767
               /\ (~x.nan /\ x.v > 0) => d >= 0
               /\ (~x.nan /\ x.v < 0) => d <= 0
               /\ x.nan => d = 0

C4_Witness ==
    /\ wavDone
    /\ \E k \in Slots : ~SlotSample(k).nan /\ SlotSample(k).v > FloatScale
    /\ \E k \in Slots : ~SlotSample(k).nan /\ SlotSample(k).v < -FloatScale
    /\ \E k \in Slots : getInt16(wavOut, 44 + 2 * k) = -32767

\* v / FloatScale clamped to [-1, 1], times 32767, as a numerator over FloatScale.
ClampedTimes32767(x) ==
    (IF x.v > FloatScale THEN FloatScale
     ELSE IF x.v < -FloatScale THEN -FloatScale ELSE x.v) * 32767

\* Round to nearest (Math.round: ties toward +Infinity) of n / FloatScale.
RoundNearest(n) == (2 * n + FloatScale) \div (2 * FloatScale)

\* Toward zero.
TowardZero(n) == IF n >= 0 THEN n \div FloatScale ELSE -((-n) \div FloatScale)

\* C5 as stated: the value at offset 44 + (i*C + c)*2 is
\* round(clamp(sample, -1, 1) * 32767), rounding to the nearest integer.
C5_Original_Rounds ==
    wavDone =>
        \A k \in Slots :
            ~SlotSample(k).nan =>
                getInt16(wavOut, 44 + 2 * k) = RoundNearest(ClampedTimes32767(SlotSample(k)))

\* C5 (amended): the value at offset 44 + (i*C + c)*2 is clamp(sample, -1, 1) *
\* 32767 truncated toward zero (0 for NaN); frames are channel-interleaved in
\* index order.
C5_Truncates ==
    wavDone =>
        \A i \in 0..(buffer.length - 1) :
            \A c \in 0..(buffer.numberOfChannels - 1) :
                LET x == buffer.channels[c + 1][i + 1]
                    d == getInt16(wavOut, 44 + (i * buffer.numberOfChannels + c) * 2)
                IN d = IF x.nan THEN 0 ELSE TowardZero(ClampedTimes32767(x))

\* A two-channel buffer whose channels differ and that holds 0.25, which
\* truncation and rounding quantize differently (8191 and 8192).
C5_Witness ==
    /\ wavDone
    /\ buffer.numberOfChannels = 2
    /\ buffer.length = 2
    /\ buffer.channels[1] # buffer.channels[2]
    /\ \E k \in Slots : SlotSample(k) = F(2500) /\ getInt16(wavOut, 44 + 2 * k) = 8191
    /\ \E k \in Slots : SlotSample(k) = F(-2500) /\ getInt16(wavOut, 44 + 2 * k) = -8191

-----------------------------------------------------------------------------
(* Claims about createSyntheticAudio, checked under SpecSynth *)

\* The whitespace-delimited tokens of a text, counted as the places where a
\* token starts; at least 1.
TokenCount(str) ==
    LET starts == { k \in 1..Len(str) :
                      ~IsSpace(str[k]) /\ (k = 1 \/ IsSpace(str[k - 1])) }
    IN IF starts = {} THEN 1 ELSE Cardinality(starts)

\* floor(max(2.0, wordCount / 150 * 60) * r)
ExpectedSamples(str, r) ==
    LET wc == TokenCount(str)
    IN IF wc * 60 > 2 * 150 THEN (wc * 60 * r) \div 150 ELSE 2 * r

\* C1: the sample buffer createSyntheticAudio builds has exactly
\* floor(max(2.0, wordCount(t)/150*60) * r) samples, wordCount(t) being the
\* number of whitespace-delimited tokens of t (at least 1), for empty,
\* whitespace-only and padded text too; text of at most 5 words yields 2*r.
C1_SampleCount ==
    synthPc \in {"loop", "resolved"} =>
        /\ Len(channelData) = ExpectedSamples(synthText, synthRate)
        /\ TokenCount(synthText) <= 5 => Len(channelData) = 2 * synthRate
        /\ synthPc = "resolved" =>
               Len(blob.bytes) = 44 + 2 * ExpectedSamples(synthText, synthRate)

\* A text of more than five words with whitespace before the first, synthesized
\* to the end.
C1_Witness ==
    /\ synthPc = "resolved"
    /\ TokenCount(synthText) > 5
    /\ IsSpace(synthText[1])
    /\ Len(channelData) > 2 * synthRate

\* C9: in every iteration the loop runs, progress lies in [0, 1) and wordIndex
\* is a valid index of words, also when words is longer than the word count
\* because of leading or trailing whitespace; the fallback for an index out of
\* range is never taken.
C9_WordIndexInRange ==
    locals.i >= 0 =>
        /\ 0 <= locals.progressNum
        /\ locals.progressNum < locals.progressDen
        /\ 0 <= locals.wordIndex
        /\ locals.wordIndex < locals.wordsLength
        /\ locals.inRange

\* The last iteration of a text with whitespace at both ends: words has two
\* more elements than the text has words, and the index reaches the last one.
C9_Witness ==
    /\ locals.i >= 0
    /\ locals.i = Len(channelData) - 1
    /\ locals.wordsLength = TokenCount(synthText) + 2
    /\ locals.wordIndex = locals.wordsLength - 1
    /\ locals.currentWord = <<>>

-----------------------------------------------------------------------------
(* Claims about generateSpeech, checked under SpecTTS *)

\* The calls made so far (at most the last two are kept).
CallsMade == { c \in {prevCall, lastCall} : c.promise.state # "none" }

\* 120 for a male identifier ("-male" in it), 200 for any other.
ClaimedBaseFrequency(voiceId) ==
    IF includes(voiceId, <<"-", "m", "a", "l", "e">>) THEN 120 ELSE 200

\* C2: the base frequency a call synthesizes with is 120 Hz when its voiceId is
\* a male identifier ("voice-male-x") and 200 Hz when it is a female
\* ("voice-female-x") or an unrecognized one ("unknown-id").
C2_FrequencyFollowsVoiceId ==
    synth => \A c \in CallsMade : c.frequency = ClaimedBaseFrequency(c.voiceId)

\* C6: two calls of generateSpeech with the same text, voiceId and sample rate
\* produce byte-identical output, whatever the 'voiceschanged' callback did to
\* the voice list between them.
C6_SameArgumentsSameBytes ==
    ( /\ prevCall.promise.state = "fulfilled"
      /\ lastCall.promise.state = "fulfilled"
      /\ prevCall.text = lastCall.text
      /\ prevCall.voiceId = lastCall.voiceId
      /\ prevCall.sampleRate = lastCall.sampleRate )
        => prevCall.promise.value.bytes = lastCall.promise.value.bytes

\* C7: whether speak succeeds, never completes or throws, the promise of
\* generateSpeech settles with the blob synthesized for the call.
C7_SpeakCannotAlterResult ==
    synth =>
        \A c \in CallsMade :
            c.promise = Fulfilled(createSyntheticAudio(c.text, c.voiceName, c.sampleRate))

-----------------------------------------------------------------------------
(* Claim about AudioPlayer, checked under SpecPlayer *)

\* C10: isPlaying is true exactly when the audio element is playing: a play()
\* that does not start playback, or a change of audioUrl that reloads the
\* element, never leaves isPlaying true on a paused element.
C10_IsPlayingMatchesElement == isPlaying = ~audio.paused

====
